---- MODULE Spec2Model ----
(***************************************************************************)
(* A model of golang-mini-tco (src/main.go): a pass over a Go syntax tree  *)
(* that rewrites self-recursive functions of the shape                     *)
(*     if <guard> { return <base> } ... return self(args)                  *)
(* into a loop.  The tree is modelled with records that keep the field     *)
(* names of go/ast; the pass is modelled statement by statement; a small   *)
(* interpreter runs the original and the rewritten function side by side.  *)
(***************************************************************************)
EXTENDS Integers, Sequences, FiniteSets

\* ------------------------------------------------------------------------
\* Bounds of the model
\* ------------------------------------------------------------------------
MaxDecls == 2      \* longest source unit built from SmallCatalogue
MaxVal   == 2      \* largest initial argument value of an execution
MaxAbs   == 4      \* executions stop once a parameter leaves -MaxAbs..MaxAbs

\* ------------------------------------------------------------------------
\* go/ast nodes (only the fields the pass or the interpreter reads)
\* ------------------------------------------------------------------------
Ident(name) == [kind |-> "Ident", Name |-> name]

BasicLit(v) == [kind |-> "BasicLit", Value |-> v]

BinaryExpr(x, op, y) == [kind |-> "BinaryExpr", X |-> x, Op |-> op, Y |-> y]

ParenExpr(x) == [kind |-> "ParenExpr", X |-> x]

CallExpr(fun, args) == [kind |-> "CallExpr", Fun |-> fun, Args |-> args]

IfStmt(cond, body, else) ==
    [kind |-> "IfStmt", Cond |-> cond, Body |-> body, Else |-> else]

ForStmt(cond, body) == [kind |-> "ForStmt", Cond |-> cond, Body |-> body]

ReturnStmt(results) == [kind |-> "ReturnStmt", Results |-> results]

AssignStmt(lhs, tok, rhs) ==
    [kind |-> "AssignStmt", Lhs |-> lhs, Tok |-> tok, Rhs |-> rhs]

ExprStmt(x) == [kind |-> "ExprStmt", X |-> x]

\* the interface value holding a nil *ast.ReturnStmt (main.go:182-185, 195)
NilReturnStmt == [kind |-> "ReturnStmt", isNil |-> TRUE]

\* the nil *ast.CallExpr returned when nothing was found (main.go:14)
NilCallExpr == [kind |-> "CallExpr", isNil |-> TRUE]

IsNil(n) == "isNil" \in DOMAIN n

Field(names) == [Names |-> names]

FuncDecl(name, params, body) ==
    [kind |-> "FuncDecl", Name |-> name, Params |-> params,
     HasBody |-> TRUE, Body |-> body]

\* a function declaration without a body (fn.Body == nil)
ExternFuncDecl(name, params) ==
    [kind |-> "FuncDecl", Name |-> name, Params |-> params,
     HasBody |-> FALSE, Body |-> <<>>]

\* any declaration that is not a function (import, var, type, ...)
GenDecl == [kind |-> "GenDecl"]

\* token.DEFINE, token.ASSIGN, token.EQL, token.NEQ
TokDEFINE == ":="
TokASSIGN == "="
TokEQL == "=="
TokNEQ == "!="

\* ------------------------------------------------------------------------
\* ast.Inspect: the ReturnStmt nodes of a statement list in the order the
\* traversal reaches them (depth first, children in field order: for an
\* IfStmt Cond, Body, Else; for a ForStmt Cond, Body).  The expressions of
\* the model hold no statements, so pruning below a node changes nothing.
\* ------------------------------------------------------------------------
RECURSIVE InspectReturns(_)
InspectReturns(list) ==
    IF list = <<>> THEN <<>>
    ELSE LET s == Head(list)
             here == CASE s.kind = "ReturnStmt" -> <<s>>
                       [] s.kind = "IfStmt" ->
                            InspectReturns(s.Body) \o InspectReturns(s.Else)
                       [] s.kind = "ForStmt" -> InspectReturns(s.Body)
                       [] OTHER -> <<>>
         IN  here \o InspectReturns(Tail(list))

\* IsSelfReturn without the comparison of the callee's name with fn.Name.Name
IsSelfReturnAnyCallee(ret, fnName) ==
    /\ Len(ret.Results) = 1
    /\ ret.Results[1].kind = "CallExpr"
    /\ ret.Results[1].Fun.kind = "Ident"

\* the test of lines 24-41 on one ReturnStmt: exactly one result, a call,
\* whose function is an identifier with the enclosing function's name
IsSelfReturn(ret, fnName) ==
    /\ Len(ret.Results) = 1
    /\ ret.Results[1].kind = "CallExpr"
    /\ ret.Results[1].Fun.kind = "Ident"
    /\ ret.Results[1].Fun.Name = fnName

\* the callback of lines 18-52 applied to the returns from position i on;
\* acc holds the captured variables tailReturn and call.  tailReturn is the
\* position of the statement among the returns visited (0 for nil).
\* Returning false at line 47 only keeps Inspect from descending below the
\* matched return; the traversal goes on with the following statements.
RECURSIVE InspectCallback(_, _, _, _)
InspectCallback(rets, fnName, i, acc) ==
    IF i > Len(rets) THEN acc
    ELSE IF IsNil(rets[i])
         THEN [acc EXCEPT !.panic = TRUE]       \* len(ret.Results) on nil
    ELSE IF IsSelfReturn(rets[i], fnName)
         THEN InspectCallback(rets, fnName, i + 1,
                [acc EXCEPT !.tailReturn = i, !.call = rets[i].Results[1]])
    ELSE InspectCallback(rets, fnName, i + 1, acc)

findTailRecursionReturn(fn) ==
    InspectCallback(InspectReturns(fn.Body), fn.Name, 1,
                    [tailReturn |-> 0, call |-> NilCallExpr, panic |-> FALSE])

\* ------------------------------------------------------------------------
\* makeAssignStmts (main.go:59-98).  params is fn.Type.Params.List: one
\* Field per parameter group, so `a, b int` is ONE field with two names and
\* `a int, b int` is two fields with one name each.  The result carries a
\* panic flag for the two index expressions that can go out of range.
\* ------------------------------------------------------------------------
TmpIdent(name) == Ident("tmp" \o name)

\* first loop, lines 64-77, from field i on
RECURSIVE StageTemporaries(_, _, _, _)
StageTemporaries(params, args, i, acc) ==
    IF i > Len(params) THEN acc
    ELSE IF Len(params[i].Names) = 0
         THEN StageTemporaries(params, args, i + 1, acc)
    ELSE IF i > Len(args)
         THEN [acc EXCEPT !.panic = TRUE]                   \* args[i]
    ELSE LET tmpName == TmpIdent(params[i].Names[1])
             assignTmp == AssignStmt(<<tmpName>>, TokDEFINE, <<args[i]>>)
         IN  StageTemporaries(params, args, i + 1,
                [acc EXCEPT !.stmts = Append(@, assignTmp),
                            !.tmpNames = Append(@, tmpName)])

\* second loop, lines 80-88, from field i on
RECURSIVE CollectIdents(_, _, _, _)
CollectIdents(params, tmpNames, i, acc) ==
    IF i > Len(params) THEN acc
    ELSE IF Len(params[i].Names) = 0
         THEN CollectIdents(params, tmpNames, i + 1, acc)
    ELSE IF i > Len(tmpNames)
         THEN [acc EXCEPT !.panic = TRUE]                   \* tmpNames[i]
    ELSE CollectIdents(params, tmpNames, i + 1,
            [acc EXCEPT !.lhsIdents = Append(@, Ident(params[i].Names[1])),
                        !.rhsIdents = Append(@, tmpNames[i])])

makeAssignStmts(params, args) ==
    LET first == StageTemporaries(params, args, 1,
                    [stmts |-> <<>>, tmpNames |-> <<>>, panic |-> FALSE])
        second == CollectIdents(params, first.tmpNames, 1,
                    [lhsIdents |-> <<>>, rhsIdents |-> <<>>, panic |-> FALSE])
        assignAll == AssignStmt(second.lhsIdents, TokASSIGN, second.rhsIdents)
    IN  IF first.panic \/ second.panic
        THEN [panic |-> TRUE, stmts |-> <<>>]
        ELSE [panic |-> FALSE, stmts |-> Append(first.stmts, assignAll)]

\* ------------------------------------------------------------------------
\* The body of the loop over node.Decls in main (main.go:107-197)
\* ------------------------------------------------------------------------
\* HasBaseIf taking a leading loop for a guard as well
HasBaseIfOrLoop(list) ==
    Len(list) > 0 /\ list[1].kind \in {"IfStmt", "ForStmt"}

\* lines 120-126: the first statement of the body, when it is an IfStmt
HasBaseIf(list) == Len(list) > 0 /\ list[1].kind = "IfStmt"

\* NegateCond with the case of token.EQL falling through to the default
NegateCondKeepsEql(c) ==
    IF c.kind = "BinaryExpr"
    THEN CASE c.Op = TokNEQ -> BinaryExpr(c.X, TokEQL, c.Y)
           [] OTHER -> c
    ELSE c

\* lines 133-153: the loop condition derived from the guard
NegateCond(c) ==
    IF c.kind = "BinaryExpr"
    THEN CASE c.Op = TokEQL -> BinaryExpr(c.X, TokNEQ, c.Y)
           [] c.Op = TokNEQ -> BinaryExpr(c.X, TokEQL, c.Y)
           [] OTHER -> c
    ELSE c

\* lines 159-179: the top-level statements kept in the loop body.  The
\* comparison `stmt == baseIf` is a pointer comparison and baseIf is the
\* first statement, so it drops position 1 only.
RECURSIVE NonRecursiveStmts(_, _, _)
NonRecursiveStmts(list, fnName, i) ==
    IF i > Len(list) THEN <<>>
    ELSE LET stmt == list[i]
             rest == NonRecursiveStmts(list, fnName, i + 1)
         IN  IF i = 1 THEN rest
             ELSE IF stmt.kind = "ReturnStmt" /\ IsSelfReturn(stmt, fnName)
                  THEN rest
             ELSE <<stmt>> \o rest

\* lines 182-185: the statement placed after the loop
BaseReturn(baseIf) ==
    IF Len(baseIf.Body) > 0 /\ baseIf.Body[1].kind = "ReturnStmt"
    THEN baseIf.Body[1]
    ELSE NilReturnStmt

\* lines 188-196: the new body
NewBody(cond, assignStmts, nonRecursiveStmts, baseReturn) ==
    <<ForStmt(cond, assignStmts \o nonRecursiveStmts), baseReturn>>

\* One iteration of the loop of line 107 on declaration d.  outcome is
\*   "skip"    one of the `continue` statements was taken,
\*   "rewrite" line 188 assigned the new body,
\*   "panic"   a run-time panic ended the program.
\* tailReturn, call and assignStmts are the locals of the iteration.
TransformDecl(d) ==
    LET blank == [outcome |-> "skip", decl |-> d, tailReturn |-> 0,
                  call |-> NilCallExpr, assignStmts |-> <<>>]
    IN
    IF d.kind # "FuncDecl" \/ ~d.HasBody THEN blank              \* 109
    ELSE
    LET found == findTailRecursionReturn(d)
        seen == [blank EXCEPT !.tailReturn = found.tailReturn,
                              !.call = found.call]
    IN
    IF found.panic THEN [seen EXCEPT !.outcome = "panic"]
    ELSE IF found.tailReturn = 0 THEN seen                        \* 115
    ELSE IF ~HasBaseIf(d.Body) THEN seen                          \* 127
    ELSE
    LET baseIf == d.Body[1]
        cond == NegateCond(baseIf.Cond)
        staged == makeAssignStmts(d.Params, found.call.Args)
    IN
    IF staged.panic THEN [seen EXCEPT !.outcome = "panic"]
    ELSE [seen EXCEPT
            !.outcome = "rewrite",
            !.assignStmts = staged.stmts,
            !.decl = [d EXCEPT !.Body =
                        NewBody(cond, staged.stmts,
                                NonRecursiveStmts(d.Body, d.Name, 1),
                                BaseReturn(baseIf))]]

\* ------------------------------------------------------------------------
\* Source units the parser can hand to the pass
\* ------------------------------------------------------------------------
IdA == Ident("a")
IdB == Ident("b")
Lit0 == BasicLit(0)
Lit1 == BasicLit(1)

\* f(b, a)
SwapArgs == <<IdB, IdA>>
\* f(a - 1, b + a)
StepArgs == <<BinaryExpr(IdA, "-", Lit1), BinaryExpr(IdB, "+", IdA)>>

SelfReturn(args) == ReturnStmt(<<CallExpr(Ident("f"), args)>>)
ReturnB == ReturnStmt(<<IdB>>)
\* print(a, b)
ObserveAB == ExprStmt(CallExpr(Ident("print"), <<IdA, IdB>>))
\* b = b + b
DoubleB == AssignStmt(<<IdB>>, TokASSIGN, <<BinaryExpr(IdB, "+", IdB)>>)

\* (a int, b int)
Ungrouped == <<Field(<<"a">>), Field(<<"b">>)>>
\* (a, b int)
Grouped == <<Field(<<"a", "b">>)>>
\* (int, int)
Unnamed == <<Field(<<>>), Field(<<>>)>>
ParamLists == {Ungrouped, Grouped, Unnamed}

ArgLists ==
    {SwapArgs, StepArgs, <<BinaryExpr(IdA, "-", Lit1)>>,
     <<BinaryExpr(IdA, "-", Lit1), IdB, IdA>>, <<>>}

CompareOps == {"==", "!=", "<", "<=", ">", ">="}

\* a <op> 0
Guard(op) == BinaryExpr(IdA, op, Lit0)
Guards == {Guard(op) : op \in CompareOps} \cup {ParenExpr(Guard("=="))}

\* if a == 0 { return b }
BaseIf == IfStmt(Guard("=="), <<ReturnB>>, <<>>)

FirstStmts ==
    {IfStmt(Guard("=="), <<>>, <<>>),
     IfStmt(Guard("=="), <<AssignStmt(<<IdB>>, TokASSIGN, <<IdA>>), ReturnB>>, <<>>),
     IfStmt(Guard("=="), <<ReturnB, ReturnStmt(<<IdA>>)>>, <<>>),
     IfStmt(Guard("=="), <<SelfReturn(SwapArgs)>>, <<>>),
     ObserveAB,
     ForStmt(Guard("!="), <<ReturnB>>),
     ReturnB}

Middles ==
    {<<>>, <<ObserveAB>>, <<DoubleB>>,
     <<IfStmt(BinaryExpr(IdB, "==", Lit0), <<SelfReturn(<<IdA, IdA>>)>>, <<>>)>>,
     <<IfStmt(BinaryExpr(IdB, "==", Lit0), <<ObserveAB>>, <<SelfReturn(<<IdA, IdA>>)>>)>>,
     <<ForStmt(BinaryExpr(IdB, "==", Lit0), <<SelfReturn(<<IdA, IdA>>)>>)>>}

Tails ==
    {<<SelfReturn(StepArgs)>>,
     <<ReturnB>>,
     <<ReturnStmt(<<CallExpr(Ident("g"), SwapArgs)>>)>>,
     <<ReturnStmt(<<CallExpr(Ident("f"), SwapArgs), IdB>>)>>,
     <<SelfReturn(SwapArgs), SelfReturn(StepArgs)>>,
     <<>>}

\* func Sum(n int, acc int) int / func Sum(n, acc int) int
\*     { if n == 0 { return acc }; return Sum(n-1, acc+n) }
SumBody ==
    <<IfStmt(BinaryExpr(Ident("n"), "==", Lit0),
             <<ReturnStmt(<<Ident("acc")>>)>>, <<>>),
      ReturnStmt(<<CallExpr(Ident("Sum"),
            <<BinaryExpr(Ident("n"), "-", Lit1),
              BinaryExpr(Ident("acc"), "+", Ident("n"))>>)>>)>>
SumUngrouped ==
    FuncDecl("Sum", <<Field(<<"n">>), Field(<<"acc">>)>>, SumBody)
SumGrouped == FuncDecl("Sum", <<Field(<<"n", "acc">>)>>, SumBody)

\* func f(a int, b int) int / func f(a, b int) int
\*     { if a == 0 { return b }; return f(b, a) }
SwapUngrouped == FuncDecl("f", Ungrouped, <<BaseIf, SelfReturn(SwapArgs)>>)
SwapGrouped == FuncDecl("f", Grouped, <<BaseIf, SelfReturn(SwapArgs)>>)

Catalogue ==
    {FuncDecl("f", p, <<BaseIf, SelfReturn(args)>>) :
        p \in ParamLists, args \in ArgLists}
    \cup {FuncDecl("f", Ungrouped,
                   <<IfStmt(g, <<ReturnB>>, <<>>), SelfReturn(args)>>) :
            g \in Guards, args \in {SwapArgs, StepArgs}}
    \cup {FuncDecl("f", Ungrouped, <<first, SelfReturn(StepArgs)>>) :
            first \in FirstStmts}
    \cup {FuncDecl("f", Ungrouped, <<BaseIf>> \o mid \o tail) :
            mid \in Middles, tail \in Tails}
    \cup {SumUngrouped, SumGrouped, FuncDecl("f", Ungrouped, <<>>),
          ExternFuncDecl("f", Ungrouped), GenDecl}

SmallCatalogue ==
    {SwapUngrouped,
     FuncDecl("f", Ungrouped, <<BaseIf, ReturnB>>),
     FuncDecl("f", Ungrouped, <<ObserveAB, SelfReturn(StepArgs)>>),
     FuncDecl("f", Ungrouped,
              <<IfStmt(Guard("=="), <<>>, <<>>), SelfReturn(StepArgs)>>),
     FuncDecl("f", Ungrouped,
              <<BaseIf, SelfReturn(<<BinaryExpr(IdA, "-", Lit1)>>)>>),
     FuncDecl("g", Ungrouped, <<BaseIf, SelfReturn(StepArgs)>>),
     ExternFuncDecl("f", Ungrouped),
     GenDecl}

SourceUnits ==
    {<<d>> : d \in Catalogue}
    \cup UNION {[1..n -> SmallCatalogue] : n \in 2..MaxDecls}

\* ------------------------------------------------------------------------
\* The pass as a state machine
\* ------------------------------------------------------------------------
VARIABLES
    decls,        \* node.Decls, mutated in place
    idx,          \* position of the loop of line 107 (1-based)
    status,       \* "loop", "printed" or "panic"
    pass,         \* 1 for the run of main, 2 for a second application
    tailRet,      \* locals of the last finished iteration (line 114)
    callExpr,
    assignStmts,  \* line 156
    outcome,      \* what the last finished iteration did
    orig,         \* the tree as parsed
    afterFirst    \* the tree when the first application ended

passVars == <<decls, idx, status, pass, tailRet, callExpr, assignStmts,
              outcome, orig, afterFirst>>

PassInit ==
    /\ decls \in SourceUnits
    /\ orig = decls
    /\ afterFirst = decls
    /\ idx = 1
    /\ status = "loop"
    /\ pass = 1
    /\ tailRet = 0
    /\ callExpr = NilCallExpr
    /\ assignStmts = <<>>
    /\ outcome = "none"

\* one iteration of `for _, decl := range node.Decls`
VisitDecl ==
    /\ status = "loop"
    /\ idx <= Len(decls)
    /\ LET r == TransformDecl(decls[idx])
       IN  /\ decls' = [decls EXCEPT ![idx] = r.decl]
           /\ tailRet' = r.tailReturn
           /\ callExpr' = r.call
           /\ assignStmts' = r.assignStmts
           /\ outcome' = r.outcome
           /\ status' = IF r.outcome = "panic" THEN "panic" ELSE "loop"
           /\ idx' = idx + 1
    /\ UNCHANGED <<pass, orig, afterFirst>>

\* printer.Fprint dereferences every statement of every body: a nil
\* *ast.ReturnStmt left by line 195 makes it panic
HasNilStmt(d) ==
    d.kind = "FuncDecl" /\ \E k \in 1..Len(d.Body) : IsNil(d.Body[k])

Fprint ==
    /\ status = "loop"
    /\ idx > Len(decls)
    /\ status' = IF \E j \in 1..Len(decls) : HasNilStmt(decls[j])
                 THEN "panic" ELSE "printed"
    /\ UNCHANGED <<decls, idx, pass, tailRet, callExpr, assignStmts,
                   outcome, orig, afterFirst>>

\* the loop of lines 107-197 applied once more to the tree it produced
Reapply ==
    /\ status = "loop"
    /\ idx > Len(decls)
    /\ pass = 1
    /\ pass' = 2
    /\ idx' = 1
    /\ afterFirst' = decls
    /\ outcome' = "none"
    /\ UNCHANGED <<decls, status, tailRet, callExpr, assignStmts, orig>>


\* ------------------------------------------------------------------------
\* Vocabulary of the properties of the pass
\* ------------------------------------------------------------------------
\* declaration j has been visited by the run of main
Visited(j) == pass = 2 \/ j < idx

\* declaration j was given a new body by the run of main
Rewritten(j) ==
    Visited(j) /\ (IF pass = 1 THEN decls[j] ELSE afterFirst[j]) # orig[j]

\* `return self(...)`: a return of exactly one result, a call of name
ReturnsCallOf(s, name) ==
    /\ s.kind = "ReturnStmt"
    /\ ~IsNil(s)
    /\ Len(s.Results) = 1
    /\ s.Results[1].kind = "CallExpr"
    /\ s.Results[1].Fun = Ident(name)

\* positions, in traversal order, of the returns of d that call d itself
SelfReturnPositions(d) ==
    LET rets == InspectReturns(d.Body)
    IN  {i \in 1..Len(rets) : ReturnsCallOf(rets[i], d.Name)}

IsFunction(d) == d.kind = "FuncDecl" /\ d.HasBody

StartsWithConditional(d) == Len(d.Body) > 0 /\ d.Body[1].kind = "IfStmt"

\* the guard's then-branch starts with a Return
HasUsableBaseReturn(d) ==
    /\ StartsWithConditional(d)
    /\ Len(d.Body[1].Body) > 0
    /\ d.Body[1].Body[1].kind = "ReturnStmt"

\* the names of the parameters, whatever their grouping
RECURSIVE FlatNames(_)
FlatNames(params) ==
    IF params = <<>> THEN <<>>
    ELSE Head(params).Names \o FlatNames(Tail(params))

Min(x, y) == IF x <= y THEN x ELSE y

\* tmp_1 := arg_1; ...; tmp_k := arg_k; p_1, ..., p_k = tmp_1, ..., tmp_k
\* for the first k names and arguments
ExpectedStaging(names, args, k) ==
    [i \in 1..k |-> AssignStmt(<<Ident("tmp" \o names[i])>>, ":=", <<args[i]>>)]
    \o <<AssignStmt([i \in 1..k |-> Ident(names[i])], "=",
                    [i \in 1..k |-> Ident("tmp" \o names[i])])>>

\* the declaration the last finished iteration of the run of main worked on
LastFinished == orig[idx - 1]

\* the last finished iteration reached line 156 (staging)
ReachedStaging ==
    /\ pass = 1
    /\ outcome \in {"rewrite", "panic"}

\* ------------------------------------------------------------------------
\* C4  All-or-nothing: a function without a self-call return, or whose first
\*     statement is not a conditional, or whose guard's then-branch is empty
\*     or does not start with a Return, has the same body after the pass as
\*     before it.
\* ------------------------------------------------------------------------
C4_AllOrNothing ==
    \A j \in 1..Len(decls) :
        (IsFunction(orig[j])
         /\ ~(SelfReturnPositions(orig[j]) # {} /\ HasUsableBaseReturn(orig[j])))
        => decls[j] = orig[j]

\* ------------------------------------------------------------------------
\* C5  Mismatched counts are not fatal: with k arguments and m named
\*     parameters, k # m, the pass does not fault and stages exactly the
\*     first min(k, m) parameters from the first min(k, m) arguments.
\* ------------------------------------------------------------------------
C5_MismatchNotFatal ==
    ReachedStaging =>
        LET names == FlatNames(LastFinished.Params)
            args == callExpr.Args
            k == Min(Len(names), Len(args))
        IN  Len(names) # Len(args) =>
                /\ outcome = "rewrite"
                /\ assignStmts = ExpectedStaging(names, args, k)

\* ------------------------------------------------------------------------
\* C8  The detector reports the first self-call return in traversal order
\*     (none when there is none), and staging uses that call's arguments.
\* ------------------------------------------------------------------------
C8_FirstMatch ==
    (pass = 1 /\ outcome # "none" /\ IsFunction(LastFinished)) =>
        LET rets == InspectReturns(LastFinished.Body)
            P == SelfReturnPositions(LastFinished)
            first == CHOOSE i \in P : \A k \in P : i <= k
        IN  IF P = {} THEN tailRet = 0 /\ callExpr = NilCallExpr
            ELSE /\ tailRet = first
                 /\ callExpr = rets[first].Results[1]

\* ------------------------------------------------------------------------
\* C10 Staging covers every named parameter: with named parameters
\*     p_1..p_k, however grouped, and k arguments, the staging statements
\*     are k declaring assignments tmp<p_i> := arg_i followed by the one
\*     assignment p_1, ..., p_k = tmp<p_1>, ..., tmp<p_k>.
\* ------------------------------------------------------------------------
C10_StagingCoversAll ==
    ReachedStaging =>
        LET names == FlatNames(LastFinished.Params)
            args == callExpr.Args
        IN  (Len(names) = Len(args) /\ Len(names) > 0) =>
                /\ outcome = "rewrite"
                /\ assignStmts = ExpectedStaging(names, args, Len(names))

\* ------------------------------------------------------------------------
\* C6  Non-match passthrough and independence: a function whose first
\*     statement is not a conditional, or that holds no `return self(...)`,
\*     keeps its body whatever happens to the declarations around it, and
\*     an iteration changes no declaration but the one it is visiting.
\* ------------------------------------------------------------------------
NonMatching(d) ==
    IsFunction(d) /\ (~StartsWithConditional(d) \/ SelfReturnPositions(d) = {})

NonMatchUntouched ==
    \A j \in 1..Len(decls) : NonMatching(orig[j]) => decls[j] = orig[j]

OnlyVisitedChanges ==
    /\ Len(decls') = Len(decls)
    /\ \A j \in 1..Len(decls) : j # idx => decls'[j] = decls[j]

C6_Passthrough == []NonMatchUntouched /\ [][OnlyVisitedChanges]_decls

\* a finished run over a unit in which a non-matching function and a
\* rewritten function stand side by side
C6_Witness ==
    /\ pass = 1 /\ idx > Len(decls) /\ Len(decls) >= 2
    /\ \E j, k \in 1..Len(decls) :
        /\ j < k
        /\ NonMatching(orig[j]) /\ decls[j] = orig[j]
        /\ decls[k] # orig[k]

MinVal == 0 - 1

Names == {"a", "b", "n", "acc", "tmpa", "tmpb", "tmpn", "tmpacc"}

RECURSIVE Eval(_, _)
Eval(e, env) ==
    CASE e.kind = "Ident" -> IF e.Name \in DOMAIN env THEN env[e.Name] ELSE 0
      [] e.kind = "BasicLit" -> e.Value
      [] e.kind = "ParenExpr" -> Eval(e.X, env)
      [] e.kind = "BinaryExpr" ->
            IF e.Op = "+" THEN Eval(e.X, env) + Eval(e.Y, env)
            ELSE IF e.Op = "-" THEN Eval(e.X, env) - Eval(e.Y, env)
            ELSE 0
      [] OTHER -> 0

RECURSIVE EvalBool(_, _)
EvalBool(e, env) ==
    CASE e.kind = "ParenExpr" -> EvalBool(e.X, env)
      [] e.kind = "BinaryExpr" ->
            LET x == Eval(e.X, env)
                y == Eval(e.Y, env)
            IN  CASE e.Op = "==" -> x = y
                  [] e.Op = "!=" -> x # y
                  [] e.Op = "<"  -> x < y
                  [] e.Op = "<=" -> x <= y
                  [] e.Op = ">"  -> x > y
                  [] e.Op = ">=" -> x >= y
                  [] OTHER -> FALSE
      [] OTHER -> FALSE

EvalAll(es, env) == [i \in 1..Len(es) |-> Eval(es[i], env)]

\* parameters bound to argument values in a fresh activation
Bind(names, vals) ==
    [x \in Names |->
        IF \E i \in 1..Len(names) : names[i] = x
        THEN vals[CHOOSE i \in 1..Len(names) : names[i] = x]
        ELSE 0]

\* x_1, ..., x_k = v_1, ..., v_k (and := alike): all values first
Assign(env, lhs, vals) ==
    [x \in DOMAIN env |->
        IF \E i \in 1..Len(lhs) : lhs[i].Name = x
        THEN vals[CHOOSE i \in 1..Len(lhs) : lhs[i].Name = x]
        ELSE env[x]]

\* Runs a statement list to its end.  st.kind tells how it ended:
\*   "fall"   ran off the end,       "return" returned st.val,
\*   "call"   `return self(st.args)`, "stuck" a statement Go rejects or the
\*   interpreter does not run (a nested loop, a nil statement).
\* st.obs collects the argument values of the calls made as statements.
RECURSIVE ExecList(_, _, _)
ExecList(list, fnName, st) ==
    IF list = <<>> THEN st
    ELSE
    LET s == Head(list)
        rest == Tail(list)
    IN  CASE s.kind = "AssignStmt" ->
                IF Len(s.Lhs) # Len(s.Rhs) THEN [st EXCEPT !.kind = "stuck"]
                ELSE ExecList(rest, fnName,
                        [st EXCEPT !.env = Assign(@, s.Lhs, EvalAll(s.Rhs, st.env))])
          [] s.kind = "ExprStmt" ->
                ExecList(rest, fnName,
                        [st EXCEPT !.obs = Append(@, EvalAll(s.X.Args, st.env))])
          [] s.kind = "IfStmt" ->
                IF EvalBool(s.Cond, st.env)
                THEN ExecList(s.Body \o rest, fnName, st)
                ELSE ExecList(s.Else \o rest, fnName, st)
          [] s.kind = "ReturnStmt" ->
                IF IsNil(s) THEN [st EXCEPT !.kind = "stuck"]
                ELSE IF ReturnsCallOf(s, fnName)
                THEN [st EXCEPT !.kind = "call",
                                !.args = EvalAll(s.Results[1].Args, st.env)]
                ELSE IF Len(s.Results) = 1 /\ s.Results[1].kind # "CallExpr"
                THEN [st EXCEPT !.kind = "return",
                                !.val = Eval(s.Results[1], st.env)]
                ELSE [st EXCEPT !.kind = "stuck"]
          [] OTHER -> [st EXCEPT !.kind = "stuck"]

Start(env) == [env |-> env, obs |-> <<>>, kind |-> "fall", val |-> 0, args |-> <<>>]

\* one activation of function d from the values env of its parameters
Activation(d, env) == ExecList(d.Body, d.Name, Start(env))

\* one turn of the rewritten function d, whose body is `for cond { ... }`
\* followed by the base return: the test of the condition, then either the
\* loop body or the statement after the loop
LoopTurn(d, env) ==
    IF EvalBool(d.Body[1].Cond, env)
    THEN ExecList(d.Body[1].Body, d.Name, Start(env))
    ELSE ExecList(Tail(d.Body), d.Name, Start(env))

InRange(env, names) ==
    \A i \in 1..Len(names) : env[names[i]] \in (0 - MaxAbs)..MaxAbs

VARIABLES
    fn,          \* the function as parsed
    rw,          \* the function after the pass
    args0,       \* the arguments of the outermost call
    phase,       \* "idle", then "run" once the two functions are called
    turn,        \* whose step is next: "rec" (original) or "loop" (rewritten)
    recEnv,      \* original: parameter values of the current activation
    recState,    \* "idle", "run", "done", "stuck" or "halt" (out of range)
    recResult,
    recObs,      \* observations of the last activation
    loopEnv,     \* rewritten: variables at the test of the loop condition
    loopState,
    loopResult,
    loopObs,     \* observations of the last turn
    loopExit     \* the rewritten function returned by leaving the loop

execVars == <<fn, rw, args0, phase, turn, recEnv, recState, recResult,
              recObs, loopEnv, loopState, loopResult, loopObs, loopExit>>

vars == <<decls, idx, status, pass, tailRet, callExpr, assignStmts,
          outcome, orig, afterFirst, fn, rw, args0, phase, turn, recEnv,
          recState, recResult, recObs, loopEnv, loopState, loopResult,
          loopObs, loopExit>>

\* ------------------------------------------------------------------------
\* The output of main put to use: a rewritten function of the printed unit
\* is called, and so is the function it was rewritten from
\* ------------------------------------------------------------------------
Idle ==
    /\ fn = GenDecl
    /\ rw = GenDecl
    /\ args0 = <<0, 0>>
    /\ phase = "idle"
    /\ turn = "rec"
    /\ recEnv = Bind(<<>>, <<>>)
    /\ loopEnv = Bind(<<>>, <<>>)
    /\ recState = "idle"
    /\ loopState = "idle"
    /\ recResult = 0
    /\ loopResult = 0
    /\ recObs = <<>>
    /\ loopObs = <<>>
    /\ loopExit = FALSE

\* a caller invokes the original and the rewritten function on the same
\* two arguments
Call ==
    /\ status = "printed"
    /\ pass = 1
    /\ phase = "idle"
    /\ \E j \in 1..Len(decls), vals \in [1..2 -> MinVal..MaxVal] :
        /\ decls[j] # orig[j]
        /\ Len(FlatNames(orig[j].Params)) = 2
        /\ fn' = orig[j]
        /\ rw' = decls[j]
        /\ args0' = vals
        /\ recEnv' = Bind(FlatNames(orig[j].Params), vals)
        /\ loopEnv' = Bind(FlatNames(orig[j].Params), vals)
    /\ phase' = "run"
    /\ recState' = "run"
    /\ loopState' = "run"
    /\ UNCHANGED <<turn, recResult, loopResult, recObs, loopObs, loopExit>>
    /\ UNCHANGED passVars

\* the original function runs one activation
RecStep ==
    /\ phase = "run"
    /\ recState = "run"
    /\ turn = "rec" \/ loopState # "run"
    /\ LET names == FlatNames(fn.Params)
           out == Activation(fn, recEnv)
           next == IF out.kind = "call" /\ Len(out.args) = Len(names)
                   THEN Bind(names, out.args) ELSE recEnv
       IN  /\ recObs' = out.obs
           /\ recEnv' = next
           /\ recResult' = IF out.kind = "return" THEN out.val ELSE recResult
           /\ recState' =
                CASE out.kind = "return" -> "done"
                  [] out.kind = "call" /\ Len(out.args) = Len(names) ->
                        IF InRange(next, names) THEN "run" ELSE "halt"
                  [] OTHER -> "stuck"
    /\ turn' = "loop"
    /\ UNCHANGED <<fn, rw, args0, phase, loopEnv, loopState, loopResult,
                   loopObs, loopExit>>
    /\ UNCHANGED passVars

\* the rewritten function runs one turn of its loop
LoopStep ==
    /\ phase = "run"
    /\ loopState = "run"
    /\ turn = "loop" \/ recState # "run"
    /\ LET names == FlatNames(rw.Params)
           looping == EvalBool(rw.Body[1].Cond, loopEnv)
           out == LoopTurn(rw, loopEnv)
           next == CASE out.kind = "fall" /\ looping -> out.env
                     [] out.kind = "call" /\ Len(out.args) = Len(names) ->
                            Bind(names, out.args)
                     [] OTHER -> loopEnv
       IN  /\ loopObs' = out.obs
           /\ loopEnv' = next
           /\ loopResult' = IF out.kind = "return" THEN out.val ELSE loopResult
           /\ loopExit' = (out.kind = "return" /\ ~looping)
           /\ loopState' =
                CASE out.kind = "return" -> "done"
                  [] out.kind = "fall" /\ looping ->
                        IF InRange(next, names) THEN "run" ELSE "halt"
                  [] out.kind = "call" /\ Len(out.args) = Len(names) ->
                        IF InRange(next, names) THEN "run" ELSE "halt"
                  [] OTHER -> "stuck"
    /\ turn' = "rec"
    /\ UNCHANGED <<fn, rw, args0, phase, recEnv, recState, recResult, recObs>>
    /\ UNCHANGED passVars

Init == PassInit /\ Idle

Next ==
    \/ VisitDecl /\ UNCHANGED execVars
    \/ Fprint /\ UNCHANGED execVars
    \/ Reapply /\ UNCHANGED execVars
    \/ Call
    \/ RecStep
    \/ LoopStep

Spec == Init /\ [][Next]_vars

\* ------------------------------------------------------------------------
\* Vocabulary of the properties of the executions
\* ------------------------------------------------------------------------
\* both functions are running and have taken the same number of steps
InStep == phase = "run" /\ turn = "rec"

ParamsAgree ==
    \A i \in 1..Len(FlatNames(fn.Params)) :
        recEnv[FlatNames(fn.Params)[i]] = loopEnv[FlatNames(fn.Params)[i]]

\* for n != 0 { tmpn := n-1; tmpacc := acc+n; n, acc = tmpn, tmpacc }
\* return acc
ExpectedSumBody ==
    <<ForStmt(BinaryExpr(Ident("n"), "!=", Lit0),
        <<AssignStmt(<<Ident("tmpn")>>, ":=",
                     <<BinaryExpr(Ident("n"), "-", Lit1)>>),
          AssignStmt(<<Ident("tmpacc")>>, ":=",
                     <<BinaryExpr(Ident("acc"), "+", Ident("n"))>>),
          AssignStmt(<<Ident("n"), Ident("acc")>>, "=",
                     <<Ident("tmpn"), Ident("tmpacc")>>)>>),
      ReturnStmt(<<Ident("acc")>>)>>

\* ------------------------------------------------------------------------
\* C1  Accumulator equivalence: Sum(n, acc) is rewritten into
\*     `for n != 0 { tmpn := n-1; tmpacc := acc+n; n, acc = tmpn, tmpacc };
\*     return acc`, and called with (n0, 0), n0 >= 0, the rewritten function
\*     returns what the original returns, n0*(n0+1)/2.
\* ------------------------------------------------------------------------
C1_SumEquivalence ==
    (/\ phase = "run"
     /\ fn.Name = "Sum"
     /\ args0[1] >= 0 /\ args0[2] = 0
     /\ loopState = "done")
    => /\ rw.Body = ExpectedSumBody
       /\ loopResult = (args0[1] * (args0[1] + 1)) \div 2

\* ------------------------------------------------------------------------
\* C2  Swap safety: for F(a, b) { if a == 0 { return b }; return F(b, a) }
\*     the values of (a, b) at the start of each loop iteration are the
\*     arguments of the successive recursive calls, and when the recursion
\*     returns the loop returns the same value.
\* ------------------------------------------------------------------------
C2_SwapSafety ==
    (InStep /\ fn.Body = <<BaseIf, SelfReturn(SwapArgs)>>
            /\ Len(FlatNames(fn.Params)) = 2)
    => /\ recState = loopState
       /\ recState = "run" => ParamsAgree
       /\ recState = "done" => recResult = loopResult

\* ------------------------------------------------------------------------
\* C3  Equivalence with intermediate statements: when statements stand
\*     between the guard and the final `return self(args)`, they run as
\*     often in the rewritten function as in the original, each time on
\*     the same parameter values, and the result is the same.
\* ------------------------------------------------------------------------
HasIntermediate(d) ==
    /\ Len(d.Body) > 2
    /\ HasUsableBaseReturn(d)
    /\ ReturnsCallOf(d.Body[Len(d.Body)], d.Name)

C3_IntermediateEquivalence ==
    (InStep /\ HasIntermediate(fn))
    => /\ recState = loopState
       /\ recObs = loopObs
       /\ recState = "done" => recResult = loopResult

\* ------------------------------------------------------------------------
\* C9  Loop exit implies the guard.
\*     As claimed: for every guard the pass accepts, when the loop is left
\*     and the base return runs, the guard holds of the current values.
\*     As amended: so it is when the guard is a comparison with == or !=;
\*     any other guard is used as the loop condition unnegated.
\* ------------------------------------------------------------------------
GuardOf(d) == d.Body[1].Cond

AtLoopExit == phase = "run" /\ loopState = "done" /\ loopExit

C9_ExitImpliesGuard_AnyGuard ==
    AtLoopExit => EvalBool(GuardOf(fn), loopEnv)

IsEqualityGuard(c) == c.kind = "BinaryExpr" /\ c.Op \in {"==", "!="}

C9_ExitImpliesGuard ==
    (AtLoopExit /\ IsEqualityGuard(GuardOf(fn)))
    => EvalBool(GuardOf(fn), loopEnv)

\* the loop ran, changed the parameters, and was then left, for a guard
\* written with !=
C9_Witness ==
    /\ AtLoopExit
    /\ GuardOf(fn).kind = "BinaryExpr" /\ GuardOf(fn).Op = "!="
    /\ loopEnv # Bind(FlatNames(fn.Params), args0)

====
